---- MODULE Spec2Model ----
(***************************************************************************)
(* A model of the NN_Chatbot data pipeline: the Vocab object of vocab.py,  *)
(* text normalisation, the save/load round trip and the batch assembler of *)
(* utils.py.                                                               *)
(*                                                                         *)
(* Python strings are sequences of one-character strings, so that split,   *)
(* strip and the regular-expression substitutions are computed character   *)
(* by character.  A Python dict is a sequence of <<key, value>> pairs in   *)
(* insertion order.                                                        *)
(***************************************************************************)
EXTENDS Integers, Sequences, FiniteSets, TLC

VARIABLES
    voc,       \* the Vocab object being built (vocab.py)
    op,        \* the last call: its name, its min_count, the trimmed flag it
               \* found and what it printed (trim: <<len(keep_words), len(word2cnt)>>)
    err,       \* the exception the last call raised, or "none"
    corpus,    \* the raw tab-separated pairs of the data file
    pairs,     \* the pairs list held by the build program
    pc,        \* the build program's position
    vfile,     \* vocab.json: the persisted object, or NoFile
    pfile,     \* processed_pairs.txt: its characters, or NoFile
    lvoc,      \* the Vocab returned by load, or NoVoc
    lpairs,    \* the pairs returned by load
    batch,     \* the pair_batch list handed to batch2TrainData (sorted in place)
    res,       \* what the last utils.py call returned
    ns,        \* normalizeString: the input string
    nres       \* normalizeString: the outputs of one and of two applications

vars == <<voc, op, err, corpus, pairs, pc, vfile, pfile, lvoc, lpairs,
          batch, res, ns, nres>>

----------------------------------------------------------------------------
(* Bounds *)

MaxCount == 3

----------------------------------------------------------------------------
(* Python dict, insertion ordered *)

Keys(d) == {d[i][1] : i \in DOMAIN d}

Has(d, k) == \E i \in DOMAIN d : d[i][1] = k

Get(d, k) == d[CHOOSE i \in DOMAIN d : d[i][1] = k][2]

Range(d) == {d[i] : i \in DOMAIN d}

Put(d, k, v) ==
    IF Has(d, k)
    THEN [i \in DOMAIN d |-> IF d[i][1] = k THEN <<k, v>> ELSE d[i]]
    ELSE Append(d, <<k, v>>)

----------------------------------------------------------------------------
(* str.split(sep) with an explicit separator *)

RECURSIVE SplitAcc(_, _, _, _)
SplitAcc(s, sep, i, cur) ==
    IF i > Len(s) THEN <<cur>>
    ELSE IF s[i] = sep THEN <<cur>> \o SplitAcc(s, sep, i + 1, <<>>)
    ELSE SplitAcc(s, sep, i + 1, Append(cur, s[i]))

split(s, sep) == SplitAcc(s, sep, 1, <<>>)

----------------------------------------------------------------------------
(* class Vocab *)

PAD == <<"<", "P", "A", "D", ">">>
SOS == <<"<", "S", "O", "S", ">">>
EOS == <<"<", "E", "O", "S", ">">>

ReservedIdx2word == <<<<0, PAD>>, <<1, SOS>>, <<2, EOS>>>>

NewVocab ==
    [name |-> "Cornell_Movie", trimmed |-> FALSE, word2idx |-> <<>>,
     word2cnt |-> <<>>, idx2word |-> ReservedIdx2word, num_words |-> 3]

addWordStale(v, word) ==
    IF ~Has(v.word2idx, word)
    THEN [v EXCEPT !.word2idx = Put(@, word, v.num_words),
                   !.word2cnt = Put(@, word, 1),
                   !.idx2word = Put(@, v.num_words, word)]
    ELSE [v EXCEPT !.word2cnt = Put(@, word, Get(@, word) + 1)]

addWord(v, word) ==
    IF ~Has(v.word2idx, word)
    THEN [v EXCEPT !.word2idx = Put(@, word, v.num_words),
                   !.word2cnt = Put(@, word, 1),
                   !.idx2word = Put(@, v.num_words, word),
                   !.num_words = @ + 1]
    ELSE [v EXCEPT !.word2cnt = Put(@, word, Get(@, word) + 1)]

RECURSIVE addWords(_, _)
addWords(v, ws) ==
    IF ws = <<>> THEN v ELSE addWords(addWord(v, Head(ws)), Tail(ws))

addSentence(v, sentence) == addWords(v, split(sentence, " "))

keepWordsStrict(v, min_count) ==
    LET kept == SelectSeq(v.word2cnt, LAMBDA kv : kv[2] > min_count)
    IN  [i \in DOMAIN kept |-> kept[i][1]]

keepWords(v, min_count) ==
    LET kept == SelectSeq(v.word2cnt, LAMBDA kv : kv[2] >= min_count)
    IN  [i \in DOMAIN kept |-> kept[i][1]]

\* The outcome of v.trim(min_count): the object afterwards, the exception
\* raised and the line printed.  The division of the print statement raises
\* ZeroDivisionError when word2cnt is empty; trimmed is already set then and
\* the maps are not rebuilt.
trimAlways(v, min_count) ==
    IF Len(v.word2cnt) = 0
    THEN [voc |-> [v EXCEPT !.trimmed = TRUE],
          err |-> "ZeroDivisionError", printed |-> <<>>]
    ELSE [voc |-> addWords([v EXCEPT !.trimmed = TRUE, !.word2idx = <<>>,
                                     !.word2cnt = <<>>,
                                     !.idx2word = ReservedIdx2word,
                                     !.num_words = 3],
                           keepWords(v, min_count)),
          err |-> "none",
          printed |-> <<Len(keepWords(v, min_count)), Len(v.word2cnt)>>]

trim(v, min_count) ==
    IF v.trimmed
    THEN [voc |-> v, err |-> "none", printed |-> <<>>]
    ELSE IF Len(v.word2cnt) = 0
    THEN [voc |-> [v EXCEPT !.trimmed = TRUE],
          err |-> "ZeroDivisionError", printed |-> <<>>]
    ELSE [voc |-> addWords([v EXCEPT !.trimmed = TRUE, !.word2idx = <<>>,
                                     !.word2cnt = <<>>,
                                     !.idx2word = ReservedIdx2word,
                                     !.num_words = 3],
                           keepWords(v, min_count)),
          err |-> "none",
          printed |-> <<Len(keepWords(v, min_count)), Len(v.word2cnt)>>]

----------------------------------------------------------------------------
(* The Vocab object under arbitrary calls *)

NoFile == [absent |-> TRUE]
NoVoc == [absent |-> TRUE]
NoRes == [call |-> "none"]

Words == {<<"a">>, <<"b">>, <<"c">>, <<>>}

Sentences ==
    { <<"a", " ", "b">>, <<"b", " ", "a">>, <<"c">>, <<"a", " ", " ", "b">>,
      <<>>, <<"b", " ", "c", " ", "a">> }

Called(name, min_count, wasTrimmed, out) ==
    [name |-> name, min_count |-> min_count, wasTrimmed |-> wasTrimmed,
     printed |-> out]

CountsWithin(v) == \A i \in DOMAIN v.word2cnt : v.word2cnt[i][2] <= MaxCount

Idle ==
    /\ corpus = <<>> /\ pairs = <<>> /\ pc = "object"
    /\ vfile = NoFile /\ pfile = NoFile /\ lvoc = NoVoc /\ lpairs = <<>>
    /\ batch = <<>> /\ res = NoRes /\ ns = <<>> /\ nres = <<>>

Init ==
    /\ voc = NewVocab
    /\ op = Called("init", 0, FALSE, <<>>)
    /\ err = "none"
    /\ Idle

Rest == UNCHANGED <<corpus, pairs, pc, vfile, pfile, lvoc, lpairs, batch, res,
                    ns, nres>>

AddWord ==
    \E w \in Words :
        /\ CountsWithin(addWord(voc, w))
        /\ voc' = addWord(voc, w)
        /\ op' = Called("addWord", 0, voc.trimmed, <<>>)
        /\ err' = "none"
        /\ Rest

AddSentence ==
    \E s \in Sentences :
        /\ CountsWithin(addSentence(voc, s))
        /\ voc' = addSentence(voc, s)
        /\ op' = Called("addSentence", 0, voc.trimmed, <<>>)
        /\ err' = "none"
        /\ Rest

Trim ==
    \E m \in 0 .. MaxCount + 1 :
        LET r == trim(voc, m) IN
        /\ voc' = r.voc
        /\ err' = r.err
        /\ op' = Called("trim", m, voc.trimmed, r.printed)
        /\ Rest

Next == AddWord \/ AddSentence \/ Trim

Spec == Init /\ [][Next]_vars

----------------------------------------------------------------------------
(* Claims about the Vocab object *)

Reserved == {0, 1, 2}

\* C1: in every reachable Vocab the two maps are inverse on the non-reserved
\* indices: for every index i >= 3 and every word w, idx2word[i] = w exactly
\* when word2idx[w] = i; and indices 0, 1, 2 of idx2word hold PAD, SOS, EOS.
C1_MapsInverse ==
    LET idxs == (Keys(voc.idx2word) \cup {kv[2] : kv \in Range(voc.word2idx)})
                    \ Reserved
        ws   == Keys(voc.word2idx) \cup {kv[2] : kv \in Range(voc.idx2word)}
    IN  /\ \A r \in Reserved : Has(voc.idx2word, r)
        /\ Get(voc.idx2word, 0) = PAD
        /\ Get(voc.idx2word, 1) = SOS
        /\ Get(voc.idx2word, 2) = EOS
        /\ \A i \in idxs : \A w \in ws :
               (Has(voc.idx2word, i) /\ Get(voc.idx2word, i) = w)
                   <=> (Has(voc.word2idx, w) /\ Get(voc.word2idx, w) = i)

\* C1 witness: a trimmed vocabulary that kept a word and has since been
\* given further words by addSentence.
C1_Witness ==
    /\ op.name = "addSentence"
    /\ voc.trimmed
    /\ voc.num_words >= 5
    /\ \E kv \in Range(voc.word2cnt) : kv[2] >= 2

\* C2: the first trim(min_count) of an untrimmed Vocab keeps exactly the words
\* counted at least min_count times, numbers them 3, 4, ... in the order in
\* which they were first seen, and leaves num_words = 3 + number of survivors.
C2_FirstTrimKeeps ==
    [][ (op'.name = "trim" /\ ~voc.trimmed) =>
          LET m    == op'.min_count
              kept == {w \in Keys(voc.word2cnt) : Get(voc.word2cnt, w) >= m}
          IN  /\ Keys(voc'.word2idx) = kept
              /\ {Get(voc'.word2idx, w) : w \in kept}
                     = 3 .. (2 + Cardinality(kept))
              /\ \A w1, w2 \in kept :
                     Get(voc.word2idx, w1) < Get(voc.word2idx, w2)
                         => Get(voc'.word2idx, w1) < Get(voc'.word2idx, w2)
              /\ \A w \in kept :
                     Get(voc'.idx2word, Get(voc'.word2idx, w)) = w
              /\ voc'.num_words = 3 + Cardinality(kept)
      ]_vars

\* C2 witness: a first trim that dropped one of three words and kept two.
C2_Witness ==
    /\ op.name = "trim"
    /\ ~op.wasTrimmed
    /\ op.printed = <<2, 3>>
    /\ op.min_count = 2
    /\ Len(voc.word2idx) = 2

\* C3: trim on an already trimmed Vocab changes none of word2idx, word2cnt,
\* idx2word, num_words and trimmed, whatever min_count it is given.
C3_TrimIdempotent ==
    [][ (op'.name = "trim" /\ voc.trimmed) => voc' = voc ]_vars

\* C3 witness: trim was called on a trimmed vocabulary holding a word whose
\* count is below the min_count given.
C3_Witness ==
    /\ op.name = "trim"
    /\ op.wasTrimmed
    /\ \E kv \in Range(voc.word2cnt) : kv[2] < op.min_count
    /\ \E kv \in Range(voc.word2cnt) : kv[2] >= 2

\* C4: trim on a Vocab whose word2cnt is empty raises no arithmetic error and
\* leaves an empty trimmed vocabulary (trimmed, no words, num_words = 3).
C4_TrimEmptyGuarded ==
    [][ (op'.name = "trim" /\ voc.word2cnt = <<>>) =>
          /\ err' = "none"
          /\ voc'.trimmed
          /\ voc'.word2idx = <<>>
          /\ voc'.num_words = 3
      ]_vars

----------------------------------------------------------------------------
(* normalizeString: characters are written as themselves when ASCII and by *)
(* their code point otherwise: "U+00C9" is E with acute, "U+00E9" is e     *)
(* with acute, "U+0301" is the combining acute accent (category Mn).       *)

MaxStrLen == 3

AsciiLower ==
    <<"a", "b", "c", "d", "e", "f", "g", "h", "i", "j", "k", "l", "m",
      "n", "o", "p", "q", "r", "s", "t", "u", "v", "w", "x", "y", "z">>

AsciiUpper ==
    <<"A", "B", "C", "D", "E", "F", "G", "H", "I", "J", "K", "L", "M",
      "N", "O", "P", "Q", "R", "S", "T", "U", "V", "W", "X", "Y", "Z">>

Letters == {AsciiLower[i] : i \in 1 .. 26} \cup {AsciiUpper[i] : i \in 1 .. 26}

Punctuation == {".", "!", "?"}

Whitespace == {" ", "\t", "\n", "\r"}

\* str.lower, one character
lowerChar(c) ==
    IF \E i \in 1 .. 26 : AsciiUpper[i] = c
    THEN AsciiLower[CHOOSE i \in 1 .. 26 : AsciiUpper[i] = c]
    ELSE IF c = "U+00C9" THEN "U+00E9"
    ELSE c

lower(s) == [i \in DOMAIN s |-> lowerChar(s[i])]

\* str.strip(): leading and trailing whitespace removed
RECURSIVE lstrip(_)
lstrip(s) ==
    IF s # <<>> /\ Head(s) \in Whitespace THEN lstrip(Tail(s)) ELSE s

RECURSIVE rstrip(_)
rstrip(s) ==
    IF s # <<>> /\ s[Len(s)] \in Whitespace
    THEN rstrip(SubSeq(s, 1, Len(s) - 1))
    ELSE s

strip(s) == rstrip(lstrip(s))

\* unicodedata.normalize('NFD', c), one character
nfdChar(c) ==
    IF c = "U+00E9" THEN <<"e", "U+0301">>
    ELSE IF c = "U+00C9" THEN <<"E", "U+0301">>
    ELSE <<c>>

\* unicodedata.category(c) == 'Mn'
isMn(c) == c = "U+0301"

RECURSIVE nfd(_)
nfd(s) == IF s = <<>> THEN <<>> ELSE nfdChar(Head(s)) \o nfd(Tail(s))

unicodeToAscii(s) == SelectSeq(nfd(s), LAMBDA c : ~isMn(c))

\* re.sub(r"([.!?])", r" \1", s)
RECURSIVE subPunct(_)
subPunct(s) ==
    IF s = <<>> THEN <<>>
    ELSE IF Head(s) \in Punctuation
    THEN <<" ", Head(s)>> \o subPunct(Tail(s))
    ELSE <<Head(s)>> \o subPunct(Tail(s))

\* re.sub(<one or more characters of class>, " ", s): every maximal run of
\* characters of the class becomes one space
RECURSIVE subRuns(_, _, _)
subRuns(s, class, inRun) ==
    IF s = <<>> THEN <<>>
    ELSE IF Head(s) \notin class
    THEN <<Head(s)>> \o subRuns(Tail(s), class, FALSE)
    ELSE IF inRun THEN subRuns(Tail(s), class, TRUE)
    ELSE <<" ">> \o subRuns(Tail(s), class, TRUE)

NormChars == {"a", "B", ".", "!", " ", "1", "U+00C9", "U+0301"}

\* every character a string of the model may hold
AllChars ==
    Letters \cup Punctuation \cup Whitespace \cup NormChars
        \cup {"U+00E9", "<", ">", "0", "2", "3", "4", "5", "6", "7", "8", "9"}

\* re.sub(r"[^a-zA-Z.!?]+", r" ", s)
subNonLetters(s) == subRuns(s, AllChars \ (Letters \cup Punctuation), FALSE)

collapseNoStrip(s) == subRuns(s, Whitespace, FALSE)

\* re.sub(r"\s+", r" ", s).strip()
collapse(s) == strip(subRuns(s, Whitespace, FALSE))

normalizeString(s) ==
    collapse(subNonLetters(subPunct(unicodeToAscii(strip(lower(s))))))

Strings(chars, n) == UNION {[1 .. k -> chars] : k \in 0 .. n}

InitNorm ==
    /\ voc = NewVocab
    /\ op = Called("init", 0, FALSE, <<>>)
    /\ err = "none"
    /\ corpus = <<>> /\ pairs = <<>> /\ pc = "normalize"
    /\ vfile = NoFile /\ pfile = NoFile /\ lvoc = NoVoc /\ lpairs = <<>>
    /\ batch = <<>> /\ res = NoRes
    /\ ns \in Strings(NormChars, MaxStrLen)
    /\ nres = <<>>

\* normalizeString applied to the input, then to its own output.
Normalize ==
    /\ pc = "normalize"
    /\ Len(nres) < 2
    /\ nres' = Append(nres, normalizeString(IF nres = <<>> THEN ns ELSE nres[1]))
    /\ UNCHANGED <<voc, op, err, corpus, pairs, pc, vfile, pfile, lvoc,
                   lpairs, batch, res, ns>>

NextNorm == Normalize

SpecNorm == InitNorm /\ [][NextNorm]_vars

\* C10: normalizeString is idempotent: normalising the output of
\* normalizeString again returns it unchanged.
C10_NormalizeIdempotent == Len(nres) = 2 => nres[2] = nres[1]

\* C10 witness: an input that normalisation changed (a capital lowered, a
\* punctuation mark set off by a space, other characters dropped), normalised
\* twice.
C10_Witness ==
    /\ Len(nres) = 2
    /\ ns = <<"B", ".", "1">>
    /\ nres[1] = <<"b", " ", ".">>

----------------------------------------------------------------------------
(* vocab.py: readPairs, filterPairs, prepareData, trimRareWords, save *)

MAX_SENT_LENGTH == 10
MIN_WORD_COUNT == 3

\* pairs = [[normalizeString(s) for s in l.split('\t')] for l in lines]
readPairs(lines) ==
    [i \in DOMAIN lines |->
        [j \in DOMAIN lines[i] |-> normalizeString(lines[i][j])]]

filterPair(p) ==
    /\ Len(split(p[1], " ")) < MAX_SENT_LENGTH
    /\ Len(split(p[2], " ")) < MAX_SENT_LENGTH

filterPairs(ps) == SelectSeq(ps, filterPair)

RECURSIVE countPairs(_, _)
countPairs(v, ps) ==
    IF ps = <<>> THEN v
    ELSE countPairs(addSentence(addSentence(v, Head(ps)[1]), Head(ps)[2]),
                    Tail(ps))

prepareData(lines) ==
    LET ps == filterPairs(readPairs(lines))
    IN  [voc |-> countPairs(NewVocab, ps), pairs |-> ps]

allWordsIn(v, sentence) ==
    \A w \in Range(split(sentence, " ")) : Has(v.word2idx, w)

\* The outcome of trimRareWords(voc, pairs, MIN_COUNT): voc afterwards, the
\* value returned and the exception raised (by voc.trim, or by the division
\* of the final print when pairs is empty).
trimRareWords(v, ps, MIN_COUNT) ==
    LET t    == trim(v, MIN_COUNT)
        keep == SelectSeq(ps, LAMBDA p : allWordsIn(t.voc, p[1])
                                          /\ allWordsIn(t.voc, p[2]))
    IN  IF t.err # "none"
        THEN [voc |-> t.voc, pairs |-> ps, err |-> t.err, printed |-> t.printed]
        ELSE IF Len(ps) = 0
        THEN [voc |-> t.voc, pairs |-> ps, err |-> "ZeroDivisionError",
              printed |-> t.printed]
        ELSE [voc |-> t.voc, pairs |-> keep, err |-> "none",
              printed |-> t.printed]

Digits == <<"0", "1", "2", "3", "4", "5", "6", "7", "8", "9">>

\* the decimal text of a non-negative integer, as json.dump writes a key
RECURSIVE str(_)
str(n) ==
    IF n < 10 THEN <<Digits[n + 1]>>
    ELSE str(n \div 10) \o <<Digits[(n % 10) + 1]>>

\* json.dump of an int-keyed dict followed by json.load: the keys come back
\* as their decimal text
jsonIntKeys(d) == [i \in DOMAIN d |-> <<str(d[i][1]), d[i][2]>>]

jsonKeepReservedOut(v) ==
    [word2idx |-> v.word2idx, word2cnt |-> v.word2cnt,
     idx2word |-> jsonIntKeys(SelectSeq(v.idx2word, LAMBDA kv : kv[1] >= 3))]

\* json.dump(dict(word2idx=..., word2cnt=..., idx2word=...)) as json.load
\* reads it back
jsonVocab(v) ==
    [word2idx |-> v.word2idx, word2cnt |-> v.word2cnt,
     idx2word |-> jsonIntKeys(v.idx2word)]

RECURSIVE join(_, _)
join(fields, sep) ==
    IF fields = <<>> THEN <<>>
    ELSE IF Len(fields) = 1 THEN fields[1]
    ELSE fields[1] \o <<sep>> \o join(Tail(fields), sep)

\* csv.writer(f, delimiter='\t', lineterminator='\n').writerow(pair); no
\* character of a normalised sentence needs quoting
writerow(row) == join(row, "\t") \o <<"\n">>

RECURSIVE csvPairs(_)
csvPairs(ps) ==
    IF ps = <<>> THEN <<>> ELSE writerow(Head(ps)) \o csvPairs(Tail(ps))

----------------------------------------------------------------------------
(* utils.py *)

loadNoEOS(vf, pf) ==
    LET lines == split(strip(pf), "\n") IN
    [voc |-> [name |-> "Cornell_Movie", trimmed |-> TRUE,
              word2idx |-> Put(Put(vf.word2idx, PAD, 0), SOS, 1),
              word2cnt |-> vf.word2cnt,
              idx2word |-> vf.idx2word,
              num_words |-> Len(vf.idx2word)],
     pairs |-> [i \in DOMAIN lines |-> split(lines[i], "\t")]]

load(vf, pf) ==
    LET lines == split(strip(pf), "\n") IN
    [voc |-> [name |-> "Cornell_Movie", trimmed |-> TRUE,
              word2idx |-> Put(Put(Put(vf.word2idx, PAD, 0), SOS, 1), EOS, 2),
              word2cnt |-> vf.word2cnt,
              idx2word |-> vf.idx2word,
              num_words |-> Len(vf.idx2word)],
     pairs |-> [i \in DOMAIN lines |-> split(lines[i], "\t")]]

indexesFromSentenceNoEOS(v, sentence) ==
    LET ws == split(sentence, " ") IN
    IF (\A i \in DOMAIN ws : Has(v.word2idx, ws[i])) /\ Has(v.word2idx, EOS)
    THEN [err |-> "none",
          val |-> [i \in DOMAIN ws |-> Get(v.word2idx, ws[i])]]
    ELSE [err |-> "KeyError", val |-> <<>>]

indexesFromSentenceUnk(v, sentence) ==
    LET ws == split(sentence, " ") IN
    IF Has(v.word2idx, EOS)
    THEN [err |-> "none",
          val |-> [i \in DOMAIN ws |->
                      IF Has(v.word2idx, ws[i]) THEN Get(v.word2idx, ws[i])
                      ELSE 0]
                      \o <<Get(v.word2idx, EOS)>>]
    ELSE [err |-> "KeyError", val |-> <<>>]

\* KeyError when a token, or '<EOS>', is no key of word2idx
indexesFromSentence(v, sentence) ==
    LET ws == split(sentence, " ") IN
    IF (\A i \in DOMAIN ws : Has(v.word2idx, ws[i])) /\ Has(v.word2idx, EOS)
    THEN [err |-> "none",
          val |-> [i \in DOMAIN ws |-> Get(v.word2idx, ws[i])]
                      \o <<Get(v.word2idx, EOS)>>]
    ELSE [err |-> "KeyError", val |-> <<>>]

RECURSIVE maxLen(_)
maxLen(l) ==
    IF l = <<>> THEN 0
    ELSE LET m == maxLen(Tail(l))
         IN  IF Len(Head(l)) > m THEN Len(Head(l)) ELSE m

zeroPaddingShort(l, fillvalue) ==
    [t \in 1 .. maxLen(l) - 1 |->
        [b \in DOMAIN l |-> IF t <= Len(l[b]) THEN l[b][t] ELSE fillvalue]]

\* list(itertools.zip_longest(*l, fillvalue=fillvalue))
zeroPadding(l, fillvalue) ==
    [t \in 1 .. maxLen(l) |->
        [b \in DOMAIN l |-> IF t <= Len(l[b]) THEN l[b][t] ELSE fillvalue]]

binaryMatrix(l, value) ==
    [i \in DOMAIN l |->
        [j \in DOMAIN l[i] |-> IF l[i][j] = value THEN 0 ELSE 1]]

indexesBatch(l, v) == [b \in DOMAIN l |-> indexesFromSentence(v, l[b])]

inputVar(l, v) ==
    LET ib == indexesBatch(l, v) IN
    IF \E b \in DOMAIN ib : ib[b].err # "none"
    THEN [err |-> "KeyError", padVar |-> <<>>, lengths |-> <<>>]
    ELSE [err |-> "none",
          padVar |-> zeroPadding([b \in DOMAIN ib |-> ib[b].val], 0),
          lengths |-> [b \in DOMAIN ib |-> Len(ib[b].val)]]

NoOutput == [padVar |-> <<>>, mask |-> <<>>, max_target_len |-> 0]

\* max() of an empty list raises ValueError; word2idx['<PAD>'] may raise
\* KeyError; torch.BoolTensor turns the mask's 0/1 into booleans
outputVar(l, v) ==
    LET ib  == indexesBatch(l, v)
        pad == zeroPadding([b \in DOMAIN ib |-> ib[b].val], 0)
        bm  == binaryMatrix(pad, Get(v.word2idx, PAD))
    IN  IF \E b \in DOMAIN ib : ib[b].err # "none"
        THEN [err |-> "KeyError"] @@ NoOutput
        ELSE IF l = <<>> THEN [err |-> "ValueError"] @@ NoOutput
        ELSE IF ~Has(v.word2idx, PAD) THEN [err |-> "KeyError"] @@ NoOutput
        ELSE [err |-> "none", padVar |-> pad,
              mask |-> [i \in DOMAIN bm |->
                           [j \in DOMAIN bm[i] |-> bm[i][j] # 0]],
              max_target_len |-> maxLen([b \in DOMAIN ib |-> ib[b].val])]

\* key=lambda x: len(x[0].split(" "))
sortKey(x) == Len(split(x[1], " "))

RECURSIVE insertTiesFirst(_, _)
insertTiesFirst(x, sorted) ==
    IF sorted = <<>> THEN <<x>>
    ELSE IF sortKey(Head(sorted)) <= sortKey(x) THEN <<x>> \o sorted
    ELSE <<Head(sorted)>> \o insertTiesFirst(x, Tail(sorted))

\* x is placed behind every element whose key is not smaller
RECURSIVE insertDesc(_, _)
insertDesc(x, sorted) ==
    IF sorted = <<>> THEN <<x>>
    ELSE IF sortKey(Head(sorted)) < sortKey(x) THEN <<x>> \o sorted
    ELSE <<Head(sorted)>> \o insertDesc(x, Tail(sorted))

RECURSIVE sortAcc(_, _)
sortAcc(l, acc) ==
    IF l = <<>> THEN acc ELSE sortAcc(Tail(l), insertDesc(Head(l), acc))

\* pair_batch.sort(key=..., reverse=True): a stable sort, ties keep their order
sortDesc(l) == sortAcc(l, <<>>)

NoBatch ==
    [inp |-> <<>>, lengths |-> <<>>, output |-> <<>>, mask |-> <<>>,
     max_target_len |-> 0]

\* The outcome of batch2TrainData(voc, pair_batch): the list as sorted in
\* place, the exception raised and the values returned.  pair[1] raises
\* IndexError on a pair of one field.
batch2TrainData(v, pair_batch) ==
    LET sorted == sortDesc(pair_batch)
        inB    == [i \in DOMAIN sorted |-> sorted[i][1]]
        outB   == [i \in DOMAIN sorted |-> sorted[i][2]]
        i      == inputVar(inB, v)
        o      == outputVar(outB, v)
    IN  IF \E k \in DOMAIN sorted : Len(sorted[k]) < 2
        THEN [batch |-> sorted, err |-> "IndexError"] @@ NoBatch
        ELSE IF i.err # "none"
        THEN [batch |-> sorted, err |-> i.err] @@ NoBatch
        ELSE IF o.err # "none"
        THEN [batch |-> sorted, err |-> o.err] @@ NoBatch
        ELSE [batch |-> sorted, err |-> "none", inp |-> i.padVar,
              lengths |-> i.lengths, output |-> o.padVar, mask |-> o.mask,
              max_target_len |-> o.max_target_len]

----------------------------------------------------------------------------
(* The pipeline: buildVocab (prepareData, trimRareWords, save), then load  *)
(* and the batch assembler on the built and on the loaded vocabulary       *)

MaxBatch == 3

Long == <<"a", " ", "a", " ", "a", " ", "a", " ", "a", " ",
          "a", " ", "a", " ", "a", " ", "a", " ", "a">>

\* raw lines of the data file, each split at its tab
Corpora ==
    { << << <<"a", " ", "b">>, <<"b", " ", "a">> >>,
         << <<"B", "!">>, <<"b", " ", "c">> >>,
         << <<"a", " ", "b">>, <<"a">> >> >>,
      << << <<"1">>, <<"b">> >>,
         << <<"b">>, <<"a", " ", "a">> >> >>,
      << << Long, <<"b">> >>,
         << <<"a">>, <<"b", " ", "a">> >>,
         << <<"a", " ", "b", " ", "a">>, <<"b">> >>,
         << <<"b">>, <<"U+00C9", " ", "a">> >>,
         << <<"b", " ", "a">>, <<"a", ".">> >> >>,
      << << Long, <<"b">> >> >> }

InitPipeline ==
    /\ corpus \in Corpora
    /\ voc = NewVocab
    /\ op = Called("init", 0, FALSE, <<>>)
    /\ err = "none"
    /\ pairs = <<>> /\ pc = "start"
    /\ vfile = NoFile /\ pfile = NoFile /\ lvoc = NoVoc /\ lpairs = <<>>
    /\ batch = <<>> /\ res = NoRes /\ ns = <<>> /\ nres = <<>>

PrepareData ==
    /\ pc = "start"
    /\ voc' = prepareData(corpus).voc
    /\ pairs' = prepareData(corpus).pairs
    /\ pc' = "prepared"
    /\ op' = Called("prepareData", 0, FALSE, <<>>)
    /\ err' = "none"
    /\ batch' = <<>> /\ res' = NoRes
    /\ UNCHANGED <<corpus, vfile, pfile, lvoc, lpairs, ns, nres>>

\* buildVocab stops at the exception of trimRareWords
TrimRareWords ==
    /\ pc = "prepared"
    /\ \E m \in 1 .. MIN_WORD_COUNT :
        LET r == trimRareWords(voc, pairs, m) IN
        /\ voc' = r.voc
        /\ pairs' = r.pairs
        /\ err' = r.err
        /\ op' = Called("trimRareWords", m, voc.trimmed, r.printed)
        /\ pc' = IF r.err = "none" THEN "trimmed" ELSE "aborted"
    /\ batch' = <<>> /\ res' = NoRes
    /\ UNCHANGED <<corpus, vfile, pfile, lvoc, lpairs, ns, nres>>

Save ==
    /\ pc = "trimmed"
    /\ vfile' = jsonVocab(voc)
    /\ pfile' = csvPairs(pairs)
    /\ pc' = "saved"
    /\ op' = Called("save", 0, voc.trimmed, <<>>)
    /\ err' = "none"
    /\ batch' = <<>> /\ res' = NoRes
    /\ UNCHANGED <<corpus, voc, pairs, lvoc, lpairs, ns, nres>>

Load ==
    /\ pc = "saved"
    /\ lvoc' = load(vfile, pfile).voc
    /\ lpairs' = load(vfile, pfile).pairs
    /\ pc' = "loaded"
    /\ op' = Called("load", 0, FALSE, <<>>)
    /\ err' = "none"
    /\ batch' = <<>> /\ res' = NoRes
    /\ UNCHANGED <<corpus, voc, pairs, vfile, pfile, ns, nres>>

\* The vocabularies a caller holds: the one built (once counted) and the one
\* load returned.  The utils.py functions change neither, so one call at each
\* position of the program reaches every outcome: a call is made only while
\* no result is held (res = NoRes), and the next program step drops the result.
Held == (IF res # NoRes THEN {}
         ELSE IF pc \in {"prepared", "trimmed", "saved", "loaded"}
         THEN {"built"} ELSE {})
            \cup (IF res = NoRes /\ lvoc # NoVoc THEN {"loaded"} ELSE {})

VocOf(which) == IF which = "built" THEN voc ELSE lvoc

\* the pairs a caller can draw a batch from: the normalised pairs read from
\* the data file and the pairs load returned
PairPool == Range(readPairs(corpus)) \cup Range(lpairs)

SentencePool == UNION {Range(p) : p \in PairPool}

IndexesFromSentence ==
    \E which \in Held : \E s \in SentencePool :
        LET r == indexesFromSentence(VocOf(which), s) IN
        /\ res' = [call |-> "indexesFromSentence", on |-> which, arg |-> s,
                   out |-> r]
        /\ err' = r.err
        /\ op' = Called("indexesFromSentence", 0, FALSE, <<>>)
        /\ batch' = <<>>
        /\ UNCHANGED <<corpus, voc, pairs, pc, vfile, pfile, lvoc, lpairs,
                       ns, nres>>

InputVar ==
    \E which \in Held : \E l \in Strings(SentencePool, MaxBatch) :
        LET r == inputVar(l, VocOf(which)) IN
        /\ res' = [call |-> "inputVar", on |-> which, arg |-> l, out |-> r]
        /\ err' = r.err
        /\ op' = Called("inputVar", 0, FALSE, <<>>)
        /\ batch' = <<>>
        /\ UNCHANGED <<corpus, voc, pairs, pc, vfile, pfile, lvoc, lpairs,
                       ns, nres>>

Batch2TrainData ==
    \E which \in Held : \E pb \in Strings(PairPool, MaxBatch) :
        LET r == batch2TrainData(VocOf(which), pb) IN
        /\ res' = [call |-> "batch2TrainData", on |-> which, arg |-> pb,
                   out |-> r]
        /\ batch' = r.batch
        /\ err' = r.err
        /\ op' = Called("batch2TrainData", 0, FALSE, <<>>)
        /\ UNCHANGED <<corpus, voc, pairs, pc, vfile, pfile, lvoc, lpairs,
                       ns, nres>>

NextPipeline ==
    \/ PrepareData
    \/ TrimRareWords
    \/ Save
    \/ Load
    \/ IndexesFromSentence
    \/ InputVar
    \/ Batch2TrainData

SpecPipeline == InitPipeline /\ [][NextPipeline]_vars

----------------------------------------------------------------------------
(* Claims about save, load and the batch assembler *)

ReservedWords == {PAD, SOS, EOS}

ReservedKeys == {str(0), str(1), str(2)}

\* what the claims expect of indexesFromSentence: one index per token, in
\* sentence order, then the EOS id 2
IndexedInOrder(v, sentence, val) ==
    LET ws == split(sentence, " ") IN
    /\ Len(val) = Len(ws) + 1
    /\ \A i \in DOMAIN ws : val[i] = Get(v.word2idx, ws[i])
    /\ val[Len(ws) + 1] = 2

\* C5 as stated: on any vocabulary holding every token of the sentence, built
\* by addSentence/trim or returned by load, indexesFromSentence returns the
\* tokens' indices in sentence order followed by 2.
C5_IndexesOnAnyVocab ==
    (res.call = "indexesFromSentence" /\ allWordsIn(VocOf(res.on), res.arg))
        => /\ res.out.err = "none"
           /\ IndexedInOrder(VocOf(res.on), res.arg, res.out.val)

\* C5 amended: on a vocabulary returned by load that holds every token of the
\* sentence, indexesFromSentence returns the tokens' indices in sentence order
\* followed by the EOS id 2.
C5_IndexesOnLoadedVocab ==
    (res.call = "indexesFromSentence" /\ res.on = "loaded"
        /\ allWordsIn(lvoc, res.arg))
        => /\ res.out.err = "none"
           /\ IndexedInOrder(lvoc, res.arg, res.out.val)

\* C5 witness: the loaded vocabulary holds a = 3 and b = 4, and "a b" was
\* indexed as [3, 4, 2].
C5_Witness ==
    /\ res.call = "indexesFromSentence"
    /\ res.on = "loaded"
    /\ res.arg = <<"a", " ", "b">>
    /\ res.out.val = <<3, 4, 2>>

HasReservedId(f) ==
    \/ \E kv \in Range(f.idx2word) : kv[1] \in ReservedKeys
    \/ \E kv \in Range(f.word2idx) : kv[2] \in Reserved

\* C6 as stated: load fails, returning no vocabulary, whenever the persisted
\* data holds a reserved id 0, 1 or 2.
C6_LoadRejectsReserved ==
    (op.name = "load" /\ HasReservedId(vfile))
        => (err # "none" /\ lvoc = NoVoc)

\* C6 amended: load does not fail on the persisted data save wrote, which
\* always holds the reserved ids as idx2word keys; it takes word2cnt and
\* idx2word as persisted, keeps every persisted word2idx entry, sets
\* num_words to len(idx2word) and trimmed, and inserts PAD = 0, SOS = 1,
\* EOS = 2 into word2idx.
C6_LoadReconstructs ==
    op.name = "load" =>
        /\ HasReservedId(vfile)
        /\ err = "none"
        /\ lvoc # NoVoc
        /\ lvoc.trimmed
        /\ lvoc.word2cnt = vfile.word2cnt
        /\ lvoc.idx2word = vfile.idx2word
        /\ lvoc.num_words = Len(vfile.idx2word)
        /\ \A kv \in Range(vfile.word2idx) :
               Has(lvoc.word2idx, kv[1]) /\ Get(lvoc.word2idx, kv[1]) = kv[2]
        /\ Keys(lvoc.word2idx) = Keys(vfile.word2idx) \cup ReservedWords
        /\ Get(lvoc.word2idx, PAD) = 0
        /\ Get(lvoc.word2idx, SOS) = 1
        /\ Get(lvoc.word2idx, EOS) = 2

\* C6 witness: load has returned a vocabulary of two words and the three
\* reserved tokens.
C6_Witness ==
    /\ op.name = "load"
    /\ lvoc # NoVoc
    /\ Len(lvoc.word2idx) = 5
    /\ Len(lvoc.idx2word) = 5

\* C7 as stated: none of the three persisted mappings has an entry for PAD,
\* SOS or EOS (ids 0, 1, 2).
C7_PersistedExcludesReserved ==
    vfile # NoFile =>
        /\ Keys(vfile.word2idx) \cap ReservedWords = {}
        /\ Keys(vfile.word2cnt) \cap ReservedWords = {}
        /\ Keys(vfile.idx2word) \cap ReservedKeys = {}
        /\ \A kv \in Range(vfile.idx2word) : kv[2] \notin ReservedWords

\* C7 amended: the persisted word2idx and word2cnt have no entry for PAD, SOS
\* or EOS and no persisted word2idx value is 0, 1 or 2, while the persisted
\* idx2word does hold "0", "1", "2" -> PAD, SOS, EOS; the reserved tokens
\* enter word2idx only when load inserts them.
C7_PersistedWord2idxExcludesReserved ==
    vfile # NoFile =>
        /\ Keys(vfile.word2idx) \cap ReservedWords = {}
        /\ Keys(vfile.word2cnt) \cap ReservedWords = {}
        /\ \A kv \in Range(vfile.word2idx) : kv[2] \notin Reserved
        /\ Keys(voc.word2idx) \cap ReservedWords = {}
        /\ Has(vfile.idx2word, str(0)) /\ Get(vfile.idx2word, str(0)) = PAD
        /\ Has(vfile.idx2word, str(1)) /\ Get(vfile.idx2word, str(1)) = SOS
        /\ Has(vfile.idx2word, str(2)) /\ Get(vfile.idx2word, str(2)) = EOS
        /\ lvoc # NoVoc => ReservedWords \subseteq Keys(lvoc.word2idx)

\* C7 witness: a vocabulary of two words was saved and loaded.
C7_Witness ==
    /\ vfile # NoFile
    /\ Len(vfile.word2idx) = 2
    /\ Len(vfile.idx2word) = 5
    /\ lvoc # NoVoc

Injections(n) ==
    {f \in [1 .. n -> 1 .. n] : \A i, j \in 1 .. n : f[i] = f[j] => i = j}

\* sorted is given reordered by descending key, ties in their given order
StableDescending(given, sorted) ==
    /\ Len(sorted) = Len(given)
    /\ \E f \in Injections(Len(given)) :
          /\ \A i \in DOMAIN sorted : sorted[i] = given[f[i]]
          /\ \A i, j \in DOMAIN sorted :
                i < j => \/ sortKey(given[f[i]]) > sortKey(given[f[j]])
                         \/ /\ sortKey(given[f[i]]) = sortKey(given[f[j]])
                            /\ f[i] < f[j]

\* column b of a time-major matrix holds seq, then PAD
ColumnHolds(matrix, b, seq) ==
    \A t \in DOMAIN matrix :
        matrix[t][b] = IF t <= Len(seq) THEN seq[t] ELSE 0

\* C8: batch2TrainData leaves the batch a permutation of the given pairs in
\* descending order of input token count, pairs of equal count in their given
\* order; input and target of a pair share a column, and the lengths returned
\* are non-increasing.
C8_BatchSortedStable ==
    res.call = "batch2TrainData" =>
        /\ StableDescending(res.arg, batch)
        /\ res.out.err = "none" =>
              LET v == VocOf(res.on) IN
              /\ Len(res.out.lengths) = Len(batch)
              /\ \A b \in DOMAIN batch :
                    /\ res.out.lengths[b] = sortKey(batch[b]) + 1
                    /\ ColumnHolds(res.out.inp, b,
                                   indexesFromSentence(v, batch[b][1]).val)
                    /\ ColumnHolds(res.out.output, b,
                                   indexesFromSentence(v, batch[b][2]).val)
              /\ \A i, j \in DOMAIN batch :
                    i < j => res.out.lengths[i] >= res.out.lengths[j]

\* C8 witness: a batch of three pairs was returned reordered, two different
\* pairs of equal input token count among them.
C8_Witness ==
    /\ res.call = "batch2TrainData"
    /\ res.out.err = "none"
    /\ Len(batch) = 3
    /\ batch # res.arg
    /\ \E i, j \in DOMAIN batch :
          /\ i < j
          /\ batch[i] # batch[j]
          /\ sortKey(batch[i]) = sortKey(batch[j])

RECURSIVE maxOf(_)
maxOf(lens) ==
    IF lens = <<>> THEN 0
    ELSE IF Head(lens) > maxOf(Tail(lens)) THEN Head(lens)
    ELSE maxOf(Tail(lens))

\* what the claims expect of inputVar on the sentences l over vocabulary v
PaddedTimeMajor(l, v, out) ==
    /\ out.err = "none"
    /\ Len(out.lengths) = Len(l)
    /\ \A b \in DOMAIN l :
          out.lengths[b] = Len(indexesFromSentence(v, l[b]).val)
    /\ Len(out.padVar) = maxOf(out.lengths)
    /\ \A t \in DOMAIN out.padVar :
          /\ Len(out.padVar[t]) = Len(l)
          /\ \A b \in DOMAIN l :
                out.padVar[t][b] =
                    IF t <= out.lengths[b]
                    THEN indexesFromSentence(v, l[b]).val[t]
                    ELSE 0

\* C9 as stated: over any vocabulary holding all the tokens of the batch,
\* inputVar returns the padded time-major matrix and the lengths.
C9_InputVarOnAnyVocab ==
    (res.call = "inputVar"
        /\ \A b \in DOMAIN res.arg : allWordsIn(VocOf(res.on), res.arg[b]))
        => PaddedTimeMajor(res.arg, VocOf(res.on), res.out)

\* C9 amended: over a vocabulary returned by load that holds all the tokens of
\* the batch, inputVar returns a rectangular time-major matrix of T = max item
\* length rows and one column per item, with lengths[b] the length of the
\* b-th item's index list; cell (t, b) holds the item's t-th index when
\* t < lengths[b] and PAD (0) otherwise.
C9_InputVarOnLoadedVocab ==
    (res.call = "inputVar" /\ res.on = "loaded"
        /\ \A b \in DOMAIN res.arg : allWordsIn(lvoc, res.arg[b]))
        => PaddedTimeMajor(res.arg, lvoc, res.out)

\* C9 witness: inputVar padded a batch of items of different lengths.
C9_Witness ==
    /\ res.call = "inputVar"
    /\ res.on = "loaded"
    /\ res.out.err = "none"
    /\ Len(res.arg) = 3
    /\ \E b, c \in DOMAIN res.arg : res.out.lengths[b] + 2 = res.out.lengths[c]
    /\ \E t \in DOMAIN res.out.padVar : \E b \in DOMAIN res.arg :
          res.out.padVar[t][b] = 0

----------------------------------------------------------------------------
(* Claims about out-of-vocabulary tokens and the pipeline end to end *)

\* KeyError and IndexError are Python's LookupError exceptions
LookupErrors == {"KeyError", "IndexError"}

\* some token of some sentence of the batch is no key of v.word2idx
HasUnknownToken(v, pair_batch) ==
    \E k \in DOMAIN pair_batch : \E j \in DOMAIN pair_batch[k] :
        ~allWordsIn(v, pair_batch[k][j])

\* C11: when a token of an input or target sentence of the batch is absent
\* from the vocabulary, batch2TrainData fails with a lookup error (KeyError
\* from indexesFromSentence when every pair has both its sentences) and
\* returns nothing: no matrix, lengths or mask, so no substitute index.
C11_UnknownTokenFails ==
    (res.call = "batch2TrainData" /\ HasUnknownToken(VocOf(res.on), res.arg))
        => /\ res.out.err \in LookupErrors
           /\ (\A k \in DOMAIN res.arg : Len(res.arg[k]) = 2)
                 => res.out.err = "KeyError"
           /\ err = res.out.err
           /\ res.out.inp = <<>>
           /\ res.out.lengths = <<>>
           /\ res.out.output = <<>>
           /\ res.out.mask = <<>>

\* C11 witness: on the loaded vocabulary, which holds '<EOS>' and '<PAD>', a
\* batch of two whole pairs with one trimmed-away token raised KeyError.
C11_Witness ==
    /\ res.call = "batch2TrainData"
    /\ res.on = "loaded"
    /\ Len(res.arg) = 2
    /\ \A k \in DOMAIN res.arg : Len(res.arg[k]) = 2
    /\ allWordsIn(lvoc, res.arg[1][1]) /\ allWordsIn(lvoc, res.arg[1][2])
    /\ allWordsIn(lvoc, res.arg[2][1]) /\ ~allWordsIn(lvoc, res.arg[2][2])
    /\ res.out.err = "KeyError"

\* trimRareWords has returned: pairs holds the kept pairs, voc is trimmed
Trimmed == pc \in {"trimmed", "saved", "loaded"}

\* every token of both sentences of every kept pair is a key of the trimmed
\* word2idx, and every pair prepareData counted that was dropped holds a
\* token that is not
KeptPairsCovered ==
    Trimmed =>
        /\ \A p \in Range(pairs) :
              allWordsIn(voc, p[1]) /\ allWordsIn(voc, p[2])
        /\ \A p \in Range(prepareData(corpus).pairs) \ Range(pairs) :
              ~(allWordsIn(voc, p[1]) /\ allWordsIn(voc, p[2]))

\* a batch of the kept pairs as trimRareWords returned them, on the loaded
\* vocabulary, raises no lookup error
KeptBatchesSucceed ==
    (res.call = "batch2TrainData" /\ res.on = "loaded"
        /\ Range(res.arg) \subseteq Range(pairs))
            => res.out.err \notin LookupErrors

\* a batch of the kept pairs as load returned them from the pairs file, on
\* the loaded vocabulary, raises no lookup error
LoadedBatchesSucceed ==
    (res.call = "batch2TrainData" /\ res.on = "loaded"
        /\ Range(res.arg) \subseteq Range(lpairs))
            => res.out.err \notin LookupErrors

\* C12: after prepareData and trimRareWords every token of every kept pair
\* is a key of the trimmed word2idx and every dropped pair holds a trimmed
\* word; and after save and load, batch2TrainData on any batch drawn from
\* the kept pairs, as trimRareWords returned them or as load read them back,
\* never raises a lookup error.
C12_EndToEndNoLookupError ==
    /\ KeptPairsCovered
    /\ KeptBatchesSucceed
    /\ LoadedBatchesSucceed

====
